---------------------------- MODULE Spec2Model ----------------------------
(***************************************************************************)
(* Masark Engine: the personality scoring services.                        *)
(*                                                                         *)
(* PersonalityScoringService (services/personality_scoring.py) and         *)
(* EnhancedPersonalityScoringService                                       *)
(* (services/enhanced_personality_scoring.py) turn the stored answers of   *)
(* an assessment session into a 4-letter type code, letter percentages and *)
(* clarity categories, and write them back to the session row.             *)
(*                                                                         *)
(* Numbers.  A Python float a/n (0 <= a <= n <= 36) is kept as the         *)
(* fraction [n |-> a, d |-> n].  For these operands IEEE division is       *)
(* correctly rounded, a/n + (n-a)/n is exactly 1.0 and a comparison with a *)
(* two-digit decimal threshold agrees with the comparison of the           *)
(* fractions, so comparisons are done by cross-multiplication.             *)
(* A type code (a Python str of four letters) is the sequence of its       *)
(* letters.  Python's None is None for an enum or string column, NoneFloat *)
(* for a float column and NoneId for an id column; a query that finds no   *)
(* row yields the empty sequence, one that finds a row the sequence of it. *)
(***************************************************************************)
EXTENDS Integers, Sequences, FiniteSets, TLC

VARIABLES
  questions,   \* table questions: id -> [dimension, option_a_maps_to_first, is_active]
  answers,     \* rows of assessment_answers of the session, in primary-key order
  session,     \* the assessment_sessions row of the session: <<row>>, or <<>>
  scores,      \* a PersonalityScores value handed to the pure helpers
  responses,   \* the list handed to calculate_personality_type_from_responses
  call,        \* the last service call: operation, input, outcome, result
  prior,       \* the service call before it
  before,      \* the session row as it was when the last call started
  requests,    \* the requests the assessment routes are handling, one per worker
  cache,       \* an InMemoryCache: its entries, access_order and last operation
  limiter      \* a RateLimitingService: its counters, its callers and the clock

vars == <<questions, answers, session, scores, responses, call, prior, before,
          requests, cache, limiter>>

\* the variables of the routes, the cache and the rate limiter
others == <<requests, cache, limiter>>

\* no request in flight, no cache and no rate limiter
NoOthers == requests = <<>> /\ cache = <<>> /\ limiter = <<>>

None == "None"

NoneFloat == [n |-> 0, d |-> 0]

NoneId == <<>>

----------------------------------------------------------------------------
(* Program constants *)

\* the number of answers (and of responses, and of active questions) the
\* services insist on
ExpectedAnswers == 36

\* PersonalityDimension, in the order the type code is written
Dimensions == <<"EI", "SN", "TF", "JP">>

DimensionSet == {Dimensions[i] : i \in 1..4}

FirstLetter(dim) ==
  CASE dim = "EI" -> "E" [] dim = "SN" -> "S" [] dim = "TF" -> "T" [] dim = "JP" -> "J"

SecondLetter(dim) ==
  CASE dim = "EI" -> "I" [] dim = "SN" -> "N" [] dim = "TF" -> "F" [] dim = "JP" -> "P"

\* PersonalityScoringService.TIE_BREAKING_RULES
TIE_BREAKING_RULES == [EI |-> "I", SN |-> "N", TF |-> "F", JP |-> "P"]

\* PersonalityScores(): every counter 0
PersonalityScores ==
  [E |-> 0, I |-> 0, S |-> 0, N |-> 0, T |-> 0, F |-> 0, J |-> 0, P |-> 0]

----------------------------------------------------------------------------
(* Fractions standing for the floats the services compute *)

Frac(a, n) == [n |-> a, d |-> n]

Zero == Frac(0, 1)

FracLess(x, y) == x.n * y.d < y.n * x.d

FracEq(x, y) == x.n * y.d = y.n * x.d

FracMax(x, y) == IF FracLess(x, y) THEN y ELSE x

FracAdd(x, y) == [n |-> x.n * y.d + y.n * x.d, d |-> x.d * y.d]

\* a decimal literal with two digits, such as 0.55
Percent(p) == Frac(p, 100)

\* a fraction in lowest terms, so that it stays within the integers of the
\* model checker
RECURSIVE GCD(_, _)
GCD(a, b) == IF b = 0 THEN a ELSE GCD(b, a % b)

Reduce(x) ==
  LET g == GCD(x.n, x.d)
  IN  IF x.n = 0 THEN Zero ELSE [n |-> x.n \div g, d |-> x.d \div g]

----------------------------------------------------------------------------
(* Dimension Tally *)

\* questions = {q.id: q for q in Question.query.filter_by(is_active=True).all()}
\* is the dictionary the services look answers up in: its keys
ActiveIds(qs) == {id \in DOMAIN qs : qs[id].is_active}

\* questions.get(answer.question_id) finds a question
Known(qs, id) == id \in DOMAIN qs /\ qs[id].is_active

\* maps_to_first = (selected_option == 'A' and question.option_a_maps_to_first)
\*              or (selected_option == 'B' and not question.option_a_maps_to_first)
maps_to_first(selected_option, question) ==
  \/ selected_option = "A" /\ question.option_a_maps_to_first
  \/ selected_option = "B" /\ ~question.option_a_maps_to_first

\* the if/elif chain on question.dimension: one counter goes up by one
\* a pass that counts for the letter the answer speaks against
IncrementOpposite(sc, dimension, first) ==
  LET letter == IF first THEN SecondLetter(dimension) ELSE FirstLetter(dimension)
  IN  [sc EXCEPT ![letter] = @ + 1]

Increment(sc, dimension, first) ==
  LET letter == IF first THEN FirstLetter(dimension) ELSE SecondLetter(dimension)
  IN  [sc EXCEPT ![letter] = @ + 1]

\* one pass of the loop body of _calculate_dimension_scores
TallyStep(sc, answer, qs) ==
  LET question == qs[answer.question_id]
  IN  IF ~Known(qs, answer.question_id)
      THEN sc     \* question = questions.get(...); if not question: continue
      ELSE Increment(sc, question.dimension,
                     maps_to_first(answer.selected_option, question))

\* the passes for rows[lo..hi], in this order, started with the counters sc.
\* The range is run as its first half followed by its second half, which is the
\* same sequence of passes and keeps the evaluation shallow.
RECURSIVE TallyRange(_, _, _, _, _)
TallyRange(sc, rows, qs, lo, hi) ==
  IF lo > hi THEN sc
  ELSE IF lo = hi THEN TallyStep(sc, rows[lo], qs)
  ELSE LET mid == (lo + hi) \div 2
       IN  CHOOSE after \in {TallyRange(half, rows, qs, mid + 1, hi) :
                               half \in {TallyRange(sc, rows, qs, lo, mid)}} : TRUE

\* scores = PersonalityScores(); for answer in answers: ...; return scores
\* a tally that misses the last row the query returned
TallyButLastRow(rows, qs) ==
  TallyRange(PersonalityScores, rows, qs, 1, Len(rows) - 1)

calculate_dimension_scores(rows, qs) ==
  TallyRange(PersonalityScores, rows, qs, 1, Len(rows))

----------------------------------------------------------------------------
(* Type Resolver *)

\* a resolver that gives a tied pair its first letter
ResolveLetterFirstOnTie(sc, dim) ==
  IF sc[FirstLetter(dim)] >= sc[SecondLetter(dim)] THEN FirstLetter(dim)
  ELSE SecondLetter(dim)

ResolveLetter(sc, dim) ==
  LET first == sc[FirstLetter(dim)]
      second == sc[SecondLetter(dim)]
  IN  IF first > second THEN FirstLetter(dim)
      ELSE IF second > first THEN SecondLetter(dim)
      ELSE TIE_BREAKING_RULES[dim]

determine_personality_type(sc) == [i \in 1..4 |-> ResolveLetter(sc, Dimensions[i])]

----------------------------------------------------------------------------
(* Strength and Clarity Calculator, basic variant *)

DimTotal(sc, dim) == sc[FirstLetter(dim)] + sc[SecondLetter(dim)]

\* the letters that get an entry: both letters of every pair with total > 0
StrengthKeys(sc) ==
  UNION {{FirstLetter(d), SecondLetter(d)} : d \in {x \in DimensionSet : DimTotal(sc, x) > 0}}

DimOfLetter(letter) ==
  CHOOSE d \in DimensionSet : letter \in {FirstLetter(d), SecondLetter(d)}

\* strengths taken as shares of all the answers instead of the pair's
StrengthsOfAllAnswers(sc) ==
  [letter \in StrengthKeys(sc) |->
     Frac(sc[letter], DimTotal(sc, "EI") + DimTotal(sc, "SN")
                      + DimTotal(sc, "TF") + DimTotal(sc, "JP"))]

calculate_preference_strengths(sc) ==
  [letter \in StrengthKeys(sc) |-> Frac(sc[letter], DimTotal(sc, DimOfLetter(letter)))]

\* strengths.get(letter, 0)
StrengthGet(strengths, letter) ==
  IF letter \in DOMAIN strengths THEN strengths[letter] ELSE Zero

\* max(strengths.get(first, 0), strengths.get(second, 0))
DominantStrength(strengths, dim) ==
  FracMax(StrengthGet(strengths, FirstLetter(dim)),
          StrengthGet(strengths, SecondLetter(dim)))

\* PersonalityScoringService.STRENGTH_THRESHOLDS, in hundredths
STRENGTH_THRESHOLDS == [SLIGHT |-> 60, MODERATE |-> 75, CLEAR |-> 90, VERY_CLEAR |-> 100]

\* a classification whose bounds include the threshold itself
ClarityOfInclusive(strength) ==
  IF ~FracLess(Percent(STRENGTH_THRESHOLDS.SLIGHT), strength) THEN "SLIGHT"
  ELSE IF ~FracLess(Percent(STRENGTH_THRESHOLDS.MODERATE), strength) THEN "MODERATE"
  ELSE IF ~FracLess(Percent(STRENGTH_THRESHOLDS.CLEAR), strength) THEN "CLEAR"
  ELSE "VERY_CLEAR"

ClarityOf(strength) ==
  IF FracLess(strength, Percent(STRENGTH_THRESHOLDS.SLIGHT)) THEN "SLIGHT"
  ELSE IF FracLess(strength, Percent(STRENGTH_THRESHOLDS.MODERATE)) THEN "MODERATE"
  ELSE IF FracLess(strength, Percent(STRENGTH_THRESHOLDS.CLEAR)) THEN "CLEAR"
  ELSE "VERY_CLEAR"

calculate_preference_clarity(strengths) ==
  [dim \in DimensionSet |-> ClarityOf(DominantStrength(strengths, dim))]

\* the default of the parameter threshold, in hundredths
BorderlineThreshold == 55

\* a list that also takes the dimensions at the threshold
BorderlineUpToThreshold(strengths) ==
  SelectSeq(Dimensions,
            LAMBDA dim : ~FracLess(Percent(BorderlineThreshold),
                                   DominantStrength(strengths, dim)))

\* the list, in the order EI, SN, TF, JP
identify_borderline_dimensions(strengths) ==
  SelectSeq(Dimensions,
            LAMBDA dim : FracLess(DominantStrength(strengths, dim),
                                  Percent(BorderlineThreshold)))

\* _count_questions_per_dimension over the active questions
count_questions_per_dimension(qs) ==
  [dim \in DimensionSet |->
     Cardinality({id \in ActiveIds(qs) : qs[id].dimension = dim})]

----------------------------------------------------------------------------
(* Statistical Validator: the enhanced variant's per-dimension analysis *)

\* dimension_scores = {'EI': {'E': 0, 'I': 0, 'total': 0}, ...}
DimensionScores == [letters |-> PersonalityScores,
                    total |-> [EI |-> 0, SN |-> 0, TF |-> 0, JP |-> 0]]

\* one pass of the counting loop of _calculate_dimensional_analyses
EnhancedTallyStep(ds, answer, qs) ==
  LET question == qs[answer.question_id]
  IN  IF ~Known(qs, answer.question_id)
      THEN ds     \* question = questions.get(...); if not question: continue
      ELSE [letters |-> Increment(ds.letters, question.dimension,
                                  maps_to_first(answer.selected_option, question)),
            total |-> [ds.total EXCEPT ![question.dimension] = @ + 1]]

\* the passes for rows[lo..hi], in this order, started with the counters ds
RECURSIVE EnhancedTallyRange(_, _, _, _, _)
EnhancedTallyRange(ds, rows, qs, lo, hi) ==
  IF lo > hi THEN ds
  ELSE IF lo = hi THEN EnhancedTallyStep(ds, rows[lo], qs)
  ELSE LET mid == (lo + hi) \div 2
       IN  CHOOSE after \in {EnhancedTallyRange(half, rows, qs, mid + 1, hi) :
                               half \in {EnhancedTallyRange(ds, rows, qs, lo, mid)}} : TRUE

\* the counting loop: for answer in answers: ...
EnhancedTally(rows, qs) ==
  EnhancedTallyRange(DimensionScores, rows, qs, 1, Len(rows))

\* the table of the basic service in the place of the professional one
BasicThresholdsInstead == [SLIGHT |-> 60, MODERATE |-> 75, CLEAR |-> 90, VERY_CLEAR |-> 100]

\* PROFESSIONAL_THRESHOLDS, in hundredths
PROFESSIONAL_THRESHOLDS == [SLIGHT |-> 56, MODERATE |-> 66, CLEAR |-> 76, VERY_CLEAR |-> 86]

\* a classification with the labels of the two lowest bands exchanged
CategoryWithSwappedLabels(percentage) ==
  IF FracLess(percentage, Percent(56)) THEN "MODERATE"
  ELSE IF FracLess(percentage, Percent(66)) THEN "SLIGHT"
  ELSE IF FracLess(percentage, Percent(76)) THEN "CLEAR"
  ELSE "VERY_CLEAR"

determine_strength_category(percentage) ==
  IF FracLess(percentage, Percent(PROFESSIONAL_THRESHOLDS.SLIGHT)) THEN "SLIGHT"
  ELSE IF FracLess(percentage, Percent(PROFESSIONAL_THRESHOLDS.MODERATE)) THEN "MODERATE"
  ELSE IF FracLess(percentage, Percent(PROFESSIONAL_THRESHOLDS.CLEAR)) THEN "CLEAR"
  ELSE "VERY_CLEAR"

\* _calculate_confidence_level returns 0.0 exactly when p = raw_score/total is
\* 0.5: abs(p - 0.5) is then 0 and the margin of error is positive (or, for
\* total <= 5, the result is abs(p - 0.5) * 2); for p = 1 the margin is 0 and
\* the result is 1.0, and every other p gives a positive quotient.
ConfidenceIsZero(raw_score, total_questions) ==
  total_questions > 0 /\ 2 * raw_score = total_questions

\* _calculate_confidence_level, given by its square (the level itself is a
\* square root): with p = raw_score/total and total > 5 the level is
\* min(1, |p - 0.5| / (1.96 * sqrt(p * (1 - p) / total))), 1.0 when the margin
\* is 0; with total <= 5 it is |p - 0.5| * 2; then clamped to [0, 1].
\* 153664 / 10000 is 4 * 1.96^2.
ConfidenceSquared(raw_score, total_questions) ==
  LET lead == 2 * raw_score - total_questions
      rest == raw_score * (total_questions - raw_score)
      ratio == IF total_questions > 5
               THEN Frac(lead * lead * total_questions * 10000, 153664 * rest)
               ELSE Frac(lead * lead, total_questions * total_questions)
  IN  IF total_questions = 0 THEN Zero
      ELSE IF total_questions > 5 /\ rest = 0 THEN Frac(1, 1)
      ELSE IF FracLess(Frac(1, 1), ratio) THEN Frac(1, 1)
      ELSE Reduce(ratio)

\* the DimensionAnalysis of one dimension with total > 0
AnalyseDimension(ds, dim) ==
  LET first_score == ds.letters[FirstLetter(dim)]
      second_score == ds.letters[SecondLetter(dim)]
      first_wins == first_score >= second_score
      raw_score == IF first_wins THEN first_score ELSE second_score
      percentage == Frac(raw_score, ds.total[dim])
  IN  [dimension |-> dim,
       raw_score |-> raw_score,
       total_questions |-> ds.total[dim],
       percentage |-> percentage,
       preference_letter |-> IF first_wins THEN FirstLetter(dim) ELSE SecondLetter(dim),
       strength_category |-> determine_strength_category(percentage),
       confidence_zero |-> ConfidenceIsZero(raw_score, ds.total[dim]),
       confidence_level_squared |-> ConfidenceSquared(raw_score, ds.total[dim])]

\* analyses: one entry per dimension whose total is not 0
AnalysesOf(ds) ==
  [dim \in {d \in DimensionSet : ds.total[d] # 0} |-> AnalyseDimension(ds, dim)]

calculate_dimensional_analyses(rows, qs) == AnalysesOf(EnhancedTally(rows, qs))

\* the TIE_BREAKING_RULES of the enhanced service: (letter, confidence 0.51)
ENHANCED_TIE_BREAKING_RULES == [EI |-> "I", SN |-> "N", TF |-> "F", JP |-> "P"]

\* the confidence of a TIE_BREAKING_RULES entry, 0.51, and its square
TieBreakConfidence == Percent(51)
TieBreakConfidenceSquared ==
  Frac(TieBreakConfidence.n * TieBreakConfidence.n,
       TieBreakConfidence.d * TieBreakConfidence.d)

\* confidence_scores, by dimension and squared: the confidence_level of an
\* analysed dimension, the default confidence of one without an analysis
ConfidenceScores(analyses) ==
  LET entry(dim) == IF dim \in DOMAIN analyses
                    THEN analyses[dim].confidence_level_squared
                    ELSE TieBreakConfidenceSquared
  IN  [EI |-> entry("EI"), SN |-> entry("SN"), TF |-> entry("TF"), JP |-> entry("JP")]

\* the letters _determine_type_with_confidence joins
EnhancedTypeCode(analyses) ==
  [i \in 1..4 |->
     IF Dimensions[i] \in DOMAIN analyses
     THEN analyses[Dimensions[i]].preference_letter
     ELSE ENHANCED_TIE_BREAKING_RULES[Dimensions[i]]]

\* statistics.geometric_mean(confidence_scores): the list holds the
\* confidence_level of every analysed dimension and 0.51 for the others.  With
\* a 0.0 in the list the function raises StatisticsError on Python 3.8-3.11 and
\* returns 0.0 from Python 3.12 on; zero_raises is which of the two the
\* interpreter does.
determine_type_with_confidence(analyses, zero_raises) ==
  LET has_zero == \E dim \in DOMAIN analyses : analyses[dim].confidence_zero
  IN  [raised |-> has_zero /\ zero_raises,
       type_code |-> EnhancedTypeCode(analyses),
       confidence_scores |-> ConfidenceScores(analyses),
       confidence_zero |-> has_zero]

----------------------------------------------------------------------------
(* Statistical Validator: the metrics of _calculate_statistical_metrics *)

\* dimension_responses[dim]: the 1s (option A) and 0s of the answers whose
\* active question has the dimension, as the count of 1s and the length
DimensionResponses(rows, qs, dim) ==
  LET of_dim == {i \in 1..Len(rows) :
                   /\ Known(qs, rows[i].question_id)
                   /\ qs[rows[i].question_id].dimension = dim}
  IN  [ones |-> Cardinality({i \in of_dim : rows[i].selected_option = "A"}),
       len |-> Cardinality(of_dim)]

\* statistics.variance(responses): the sample variance, with the divisor
\* len - 1, of ones 1s among len > 1 values
SampleVariance(ones, len) ==
  Reduce(Frac(ones * (len - ones), len * (len - 1)))

\* consistency = 1 - (variance / max_variance), max_variance = 0.25
ConsistencyOf(variance) ==
  Reduce(Frac(variance.d - 4 * variance.n, variance.d))

\* _calculate_internal_consistency: per dimension with more than one
\* response the variance and the consistency, and their mean (0.5 without any)
calculate_internal_consistency(rows, qs) ==
  LET entry(dim) ==
        LET r == CHOOSE v \in {DimensionResponses(rows, qs, dim)} : TRUE
            variance == IF r.len > 1 THEN SampleVariance(r.ones, r.len) ELSE Zero
        IN  [counted |-> r.len > 1, variance |-> variance,
             consistency |-> IF r.len > 1 THEN ConsistencyOf(variance) ELSE Zero]
      per == CHOOSE p \in {[EI |-> entry("EI"), SN |-> entry("SN"),
                             TF |-> entry("TF"), JP |-> entry("JP")]} : TRUE
      count == Cardinality({dim \in DimensionSet : per[dim].counted})
      sum == Reduce(FracAdd(Reduce(FracAdd(per.EI.consistency, per.SN.consistency)),
                            Reduce(FracAdd(per.TF.consistency, per.JP.consistency))))
  IN  [per_dimension |-> per,
       value |-> IF count = 0 THEN Frac(1, 2) ELSE Reduce(Frac(sum.n, sum.d * count))]

\* _calculate_extreme_response_bias: abs(a_count / total_count - 0.5) * 2
calculate_extreme_response_bias(rows) ==
  LET a_count == Cardinality({i \in 1..Len(rows) : rows[i].selected_option = "A"})
      lead == 2 * a_count - Len(rows)
  IN  IF Len(rows) = 0 THEN Zero
      ELSE Reduce(Frac(IF lead < 0 THEN 0 - lead ELSE lead, Len(rows)))

calculate_statistical_metrics(rows, qs) ==
  [internal_consistency |-> calculate_internal_consistency(rows, qs),
   extreme_response_bias |-> calculate_extreme_response_bias(rows)]

----------------------------------------------------------------------------
(* Result Assembler: the write-back to the session row *)

Letters == {"E", "I", "S", "N", "T", "F", "J", "P"}

\* the personality_types table as database_init.py fills it: all 16 codes;
\* a row's id is written as its code
PersonalityTypes == [1..4 -> Letters] \cap
  {c \in [1..4 -> Letters] :
     \A i \in 1..4 : c[i] \in {FirstLetter(Dimensions[i]), SecondLetter(Dimensions[i])}}

\* PersonalityType.query.filter_by(code=type_code).first(), then .id
PersonalityTypeId(type_code) ==
  IF type_code \in PersonalityTypes THEN type_code ELSE NoneId

\* a new assessment_sessions row: no result column set
NewSession(is_completed) ==
  [is_completed |-> is_completed, personality_type_id |-> NoneId,
   e_strength |-> NoneFloat, s_strength |-> NoneFloat,
   t_strength |-> NoneFloat, j_strength |-> NoneFloat,
   ei_clarity |-> None, sn_clarity |-> None, tf_clarity |-> None, jp_clarity |-> None]

\* the ten result columns of a session row
ResultFields(sess) ==
  <<sess.personality_type_id,
    sess.e_strength, sess.s_strength, sess.t_strength, sess.j_strength,
    sess.ei_clarity, sess.sn_clarity, sess.tf_clarity, sess.jp_clarity>>

\* dict.get(key, default)
DictGet(dict, key, default) == IF key \in DOMAIN dict THEN dict[key] ELSE default

\* assignments that add each new strength to the one already stored
AccumulateResults(sess, type_code, strengths, clarity) ==
  LET personality_type_id == PersonalityTypeId(type_code)
      added(stored, new) == IF stored = NoneFloat THEN new ELSE FracAdd(stored, new)
  IN  [sess EXCEPT
         !.personality_type_id = IF personality_type_id # NoneId
                                 THEN personality_type_id ELSE @,
         !.e_strength = added(@, DictGet(strengths, "E", Zero)),
         !.s_strength = added(@, DictGet(strengths, "S", Zero)),
         !.t_strength = added(@, DictGet(strengths, "T", Zero)),
         !.j_strength = added(@, DictGet(strengths, "J", Zero)),
         !.ei_clarity = DictGet(clarity, "EI", None),
         !.sn_clarity = DictGet(clarity, "SN", None),
         !.tf_clarity = DictGet(clarity, "TF", None),
         !.jp_clarity = DictGet(clarity, "JP", None)]

\* the assignments of _update_session_with_results, then db.session.commit();
\* a commit that raises is followed by db.session.rollback(), which drops the
\* assignments, and the exception is raised again
AssignResults(sess, type_code, strengths, clarity) ==
  LET personality_type_id == PersonalityTypeId(type_code)
  IN  [sess EXCEPT
         !.personality_type_id = IF personality_type_id # NoneId
                                 THEN personality_type_id ELSE @,
         !.e_strength = DictGet(strengths, "E", Zero),
         !.s_strength = DictGet(strengths, "S", Zero),
         !.t_strength = DictGet(strengths, "T", Zero),
         !.j_strength = DictGet(strengths, "J", Zero),
         !.ei_clarity = DictGet(clarity, "EI", None),
         !.sn_clarity = DictGet(clarity, "SN", None),
         !.tf_clarity = DictGet(clarity, "TF", None),
         !.jp_clarity = DictGet(clarity, "JP", None)]

\* a write-back whose assignments outlive a failed commit
UpdateWithoutRollback(sess, result, commit_ok) ==
  [raised |-> ~commit_ok,
   session |-> AssignResults(sess, result.type_code,
                             result.preference_strengths, result.preference_clarity)]

update_session_with_results(sess, result, commit_ok) ==
  IF commit_ok
  THEN [raised |-> FALSE,
        session |-> AssignResults(sess, result.type_code,
                                  result.preference_strengths, result.preference_clarity)]
  ELSE [raised |-> TRUE, session |-> sess]

----------------------------------------------------------------------------
(* The two session entry points *)

NoResult == [type_code |-> <<>>]

\* the checks both entry points start with: session found, completed, and
\* exactly 36 answer rows
ValidateSession(sess, rows) ==
  IF sess = <<>> THEN "session_not_found"
  ELSE IF ~sess[1].is_completed THEN "session_not_completed"
  ELSE IF Len(rows) # ExpectedAnswers THEN "answer_count"
  ELSE "ok"

\* what a call hands back: the outcome, the result and the session row after it
Raise(kind, sess) ==
  [outcome |-> "error", error |-> kind, result |-> NoResult, session |-> sess]

Return(result, sess) ==
  [outcome |-> "ok", error |-> "", result |-> result, session |-> sess]

\* the PersonalityResult of a tally
BasicResult(sc, qs) ==
  LET strengths == calculate_preference_strengths(sc)
  IN  [type_code |-> determine_personality_type(sc),
       dimension_scores |-> sc,
       preference_strengths |-> strengths,
       preference_clarity |-> calculate_preference_clarity(strengths),
       borderline_dimensions |-> identify_borderline_dimensions(strengths),
       total_questions_per_dimension |-> count_questions_per_dimension(qs)]

\* what the call computes from the answer rows and the catalog alone
BasicComputation(rows, qs) == BasicResult(calculate_dimension_scores(rows, qs), qs)

\* the call around its computation: the checks before it, the write-back after
FinishBasic(sess, rows, result, commit_ok) ==
  LET check == ValidateSession(sess, rows)
      update == update_session_with_results(sess[1], result, commit_ok)
  IN  IF check # "ok" THEN Raise(check, sess)
      ELSE IF update.raised THEN Raise("commit_failed", <<update.session>>)
      ELSE Return(result, <<update.session>>)

\* rows: the answer rows in the order the query returned them
calculate_personality_type(sess, rows, qs, commit_ok) ==
  FinishBasic(sess, rows, BasicComputation(rows, qs), commit_ok)

\* the EnhancedPersonalityResult, as far as the type and the legacy fields go
EnhancedResult(analyses, typed, metrics) ==
  [type_code |-> typed.type_code,
   dimension_analyses |-> analyses,
   type_confidence_zero |-> typed.confidence_zero,
   confidence_scores |-> typed.confidence_scores,
   statistical_metrics |-> metrics,
   preference_strengths |-> [dim \in DOMAIN analyses |-> analyses[dim].percentage],
   preference_clarity |-> [dim \in DOMAIN analyses |-> analyses[dim].strength_category]]

\* what the call computes from the answer rows and the catalog alone
EnhancedComputation(rows, qs) ==
  [analyses |-> calculate_dimensional_analyses(rows, qs),
   metrics |-> calculate_statistical_metrics(rows, qs)]

\* the call around its computation
FinishEnhanced(sess, rows, computed, commit_ok, zero_raises) ==
  LET check == ValidateSession(sess, rows)
      typed == determine_type_with_confidence(computed.analyses, zero_raises)
      result == EnhancedResult(computed.analyses, typed, computed.metrics)
      update == update_session_with_results(sess[1], result, commit_ok)
  IN  IF check # "ok" THEN Raise(check, sess)
      ELSE IF typed.raised THEN Raise("statistics_error", sess)
      ELSE IF update.raised THEN Raise("commit_failed", <<update.session>>)
      ELSE Return(result, <<update.session>>)

calculate_enhanced_personality_type(sess, rows, qs, commit_ok, zero_raises) ==
  FinishEnhanced(sess, rows, EnhancedComputation(rows, qs), commit_ok, zero_raises)

----------------------------------------------------------------------------
(* The database states and inputs the services are run on *)

\* bounds of the model
MaxBlock == 3       \* catalogs: questions of a dimension come in runs of 1..MaxBlock
MaxPeriod == 3      \* answer sets: option A on the first t of every m <= MaxPeriod questions
MaxShift == 1       \* row orders: the stored order rotated by 0..MaxShift rows

\* a catalog tags its questions with all four dimensions or leaves the last out
DimensionCounts == {Len(Dimensions) - 1, Len(Dimensions)}

\* a questions table of 36 rows: runs of block questions cycle through the
\* first ndims dimensions (database_init.py ships block = 3, ndims = 4);
\* option A maps to the first letter on every question (as shipped) or, with
\* mixed polarity, on the odd-numbered ones; the ids in inactive are inactive
Catalog(block, ndims, mixed, inactive) ==
  [id \in 1..ExpectedAnswers |->
     [dimension |-> Dimensions[(((id - 1) \div block) % ndims) + 1],
      option_a_maps_to_first |-> (~mixed \/ id % 2 = 1),
      is_active |-> id \notin inactive]]

\* 36 answer rows, one per question id 1..36
AnswerRows(m, t) ==
  [id \in 1..ExpectedAnswers |->
     [question_id |-> id,
      selected_option |-> IF (id - 1) % m < t THEN "A" ELSE "B"]]

Patterns == {<<1, 0>>, <<1, 1>>} \cup {<<m, t>> \in (2..MaxPeriod) \X (1..MaxPeriod) : t < m}

\* the rows in the order a query without ORDER BY may return them
Rotate(rows, k) ==
  SubSeq(rows, k + 1, Len(rows)) \o SubSeq(rows, 1, k)

\* what is wrong with the stored data of the session, if anything
Faults == {"none", "no_session", "not_completed", "missing_answer",
           "unknown_question", "inactive_question"}

\* the questions table initialize_sample_questions fills: 36 active questions
\* in runs of three per dimension, option A for the first letter throughout
ShippedCatalog == Catalog(3, Len(Dimensions), FALSE, {})

\* the answers A, B, A, B, ... to the questions 1..36 in their order
AlternatingAnswers == AnswerRows(2, 1)

NoCall == [op |-> "none", outcome |-> "none", error |-> "", result |-> NoResult]

Init ==
  \E block \in 1..MaxBlock, ndims \in DimensionCounts, mixed \in BOOLEAN,
     pattern \in Patterns, fault \in Faults :
    LET rows == AnswerRows(pattern[1], pattern[2])
    IN  /\ questions = Catalog(block, ndims, mixed,
                               IF fault = "inactive_question" THEN {1} ELSE {})
        /\ answers = CASE fault = "missing_answer" -> SubSeq(rows, 1, ExpectedAnswers - 1)
                       [] fault = "unknown_question" ->
                            [rows EXCEPT ![ExpectedAnswers].question_id = ExpectedAnswers + 1]
                       [] OTHER -> rows
        /\ session = CASE fault = "no_session" -> <<>>
                       [] fault = "not_completed" -> <<NewSession(FALSE)>>
                       [] OTHER -> <<NewSession(TRUE)>>
        /\ scores = PersonalityScores
        /\ responses = <<>>
        /\ call = NoCall
        /\ prior = NoCall
        /\ before = session
        /\ NoOthers

\* what every call leaves behind
Record(op, r) ==
  /\ call' = [op |-> op, outcome |-> r.outcome, error |-> r.error, result |-> r.result]
  /\ prior' = call
  /\ before' = session
  /\ session' = r.session

\* PersonalityScoringService.calculate_personality_type(session_id)
ScoreBasic ==
  /\ \E shift \in 0..MaxShift :
       \E result \in {BasicComputation(Rotate(answers, shift), questions)} :
         \E commit_ok \in BOOLEAN :
           Record("basic", FinishBasic(session, Rotate(answers, shift), result, commit_ok))
  /\ UNCHANGED <<questions, answers, scores, responses, others>>

\* EnhancedPersonalityScoringService.calculate_enhanced_personality_type(session_id)
ScoreEnhanced ==
  /\ \E shift \in 0..MaxShift :
       \E computed \in {EnhancedComputation(Rotate(answers, shift), questions)} :
         \E commit_ok \in BOOLEAN, zero_raises \in BOOLEAN :
           Record("enhanced", FinishEnhanced(session, Rotate(answers, shift), computed,
                                             commit_ok, zero_raises))
  /\ UNCHANGED <<questions, answers, scores, responses, others>>

Next == ScoreBasic \/ ScoreEnhanced

Spec == Init /\ [][Next]_vars

----------------------------------------------------------------------------
(* The pure helpers on arbitrary tallies *)

MaxScore == 2       \* tallies: every counter in 0..MaxScore

\* a run of this part holds no database
NoDatabase ==
  /\ questions = <<>>
  /\ answers = <<>>
  /\ session = <<>>
  /\ responses = <<>>
  /\ call = NoCall
  /\ prior = NoCall
  /\ before = <<>>
  /\ NoOthers

\* every tally with small counters, and every tally of one dimension that 36
\* answers can give (the other dimensions without answers)
InitScores ==
  /\ \/ scores \in [DOMAIN PersonalityScores -> 0..MaxScore]
     \/ \E dim \in DimensionSet, first \in 0..ExpectedAnswers, second \in 0..ExpectedAnswers :
          /\ first + second <= ExpectedAnswers
          /\ scores = [PersonalityScores EXCEPT ![FirstLetter(dim)] = first,
                                                ![SecondLetter(dim)] = second]
  /\ NoDatabase

\* type_code = self._determine_personality_type(scores)
\* strengths = self._calculate_preference_strengths(scores) ... on the tally
ResolveScores ==
  /\ call.op = "none"
  /\ call' = [op |-> "resolve", outcome |-> "ok", error |-> "",
              result |-> BasicResult(scores, questions)]
  /\ UNCHANGED <<questions, answers, session, scores, responses, prior, before, others>>

\* the second half of _calculate_dimensional_analyses and the confidences of
\* _determine_type_with_confidence, on the counters of the tally
AnalyseScores ==
  /\ call.op = "none"
  /\ LET ds == [letters |-> scores,
                total |-> [EI |-> DimTotal(scores, "EI"), SN |-> DimTotal(scores, "SN"),
                           TF |-> DimTotal(scores, "TF"), JP |-> DimTotal(scores, "JP")]]
         analyses == AnalysesOf(ds)
     IN  call' = [op |-> "analyse", outcome |-> "ok", error |-> "",
                  result |-> [type_code |-> EnhancedTypeCode(analyses),
                              dimension_analyses |-> analyses,
                              confidence_scores |-> ConfidenceScores(analyses)]]
  /\ UNCHANGED <<questions, answers, session, scores, responses, prior, before, others>>

NextScores == ResolveScores \/ AnalyseScores

SpecScores == InitScores /\ [][NextScores]_vars

----------------------------------------------------------------------------
(* The raw-response entry point (personality_scoring.py) *)

\* a response value: an int carries its value, anything else (2.5, "3", None)
\* is not an int and is never compared
IntResponse(value) == [is_int |-> TRUE, value |-> value]
NotAnInt == [is_int |-> FALSE, value |-> 0]

\* if not isinstance(response, int) or response < 1 or response > 5: raise
InvalidResponse(response) ==
  \/ ~response.is_int
  \/ response.value < 1
  \/ response.value > 5

\* the positions whose value random.choice(['A', 'B']) resolves
NeutralPositions(resps) ==
  {i \in 1..Len(resps) : ~InvalidResponse(resps[i]) /\ resps[i].value = 3}

\* response <= 2 -> 'A'; response >= 4 -> 'B'; else the drawn option
SelectedOption(response, drawn) ==
  IF response.value <= 2 THEN "A"
  ELSE IF response.value >= 4 THEN "B"
  ELSE drawn

\* Question.query.filter_by(is_active=True).order_by(Question.id).all()
ActiveQuestionIds(qs) ==
  SelectSeq([id \in 1..Len(qs) |-> id], LAMBDA id : qs[id].is_active)

RaiseResponses(kind) ==
  [outcome |-> "error", error |-> kind, result |-> NoResult, passes |-> 0]

\* an entry point that checks each value in the pass that tallies it
ValidateWhileTallying(resps, qs, draws) ==
  IF Len(resps) # ExpectedAnswers THEN RaiseResponses("response_count")
  ELSE LET invalid == {i \in 1..Len(resps) : InvalidResponse(resps[i])}
           stop == CHOOSE i \in invalid : \A j \in invalid : i <= j
       IN  IF invalid = {} THEN RaiseResponses("question_count")
           ELSE [RaiseResponses("invalid_response") EXCEPT !.passes = stop - 1]

\* calculate_personality_type_from_responses; draws[i] is what random.choice
\* returns in pass i, passes the number of passes of the tally loop made
calculate_personality_type_from_responses(resps, qs, draws) ==
  IF Len(resps) # ExpectedAnswers THEN RaiseResponses("response_count")
  ELSE IF \E i \in 1..Len(resps) : InvalidResponse(resps[i])
  THEN RaiseResponses("invalid_response")
  ELSE LET ids == ActiveQuestionIds(qs)
       IN  IF Len(ids) # ExpectedAnswers THEN RaiseResponses("question_count")
           ELSE LET rows == [i \in 1..ExpectedAnswers |->
                               [question_id |-> ids[i],
                                selected_option |->
                                  SelectedOption(resps[i],
                                                 IF i \in DOMAIN draws THEN draws[i] ELSE "A")]]
                    sc == CHOOSE t \in {calculate_dimension_scores(rows, qs)} : TRUE
                IN  [outcome |-> "ok", error |-> "", result |-> BasicResult(sc, qs),
                     passes |-> Len(rows)]

MaxNeutral == 1     \* response lists: up to MaxNeutral values 3, at the front

ResponseFaults == {"none", "short", "long", "zero", "six", "not_int", "inactive_question"}

\* option A answered as low, option B as high, the first neutral values as 3
ResponseList(m, t, low, high, neutral) ==
  [i \in 1..ExpectedAnswers |->
     IF i <= neutral THEN IntResponse(3)
     ELSE IF (i - 1) % m < t THEN IntResponse(low) ELSE IntResponse(high)]

InitResponses ==
  \E block \in 1..MaxBlock, mixed \in BOOLEAN, pattern \in Patterns,
     low \in {1, 2}, neutral \in 0..MaxNeutral, fault \in ResponseFaults :
    LET list == ResponseList(pattern[1], pattern[2], low, 6 - low, neutral)
        last == ExpectedAnswers
    IN  /\ questions = Catalog(block, Len(Dimensions), mixed,
                               IF fault = "inactive_question" THEN {1} ELSE {})
        /\ responses = CASE fault = "short" -> SubSeq(list, 1, last - 1)
                         [] fault = "long" -> Append(list, IntResponse(low))
                         [] fault = "zero" -> [list EXCEPT ![last] = IntResponse(0)]
                         [] fault = "six" -> [list EXCEPT ![last] = IntResponse(6)]
                         [] fault = "not_int" -> [list EXCEPT ![last] = NotAnInt]
                         [] OTHER -> list
        /\ answers = <<>>
        /\ session = <<>>
        /\ scores = PersonalityScores
        /\ call = NoCall
        /\ prior = NoCall
        /\ before = <<>>
        /\ NoOthers

ScoreResponses ==
  /\ \E draws \in [NeutralPositions(responses) -> {"A", "B"}] :
       LET r == calculate_personality_type_from_responses(responses, questions, draws)
       IN  call' = [op |-> "responses", outcome |-> r.outcome, error |-> r.error,
                    result |-> r.result, passes |-> r.passes]
  /\ prior' = call
  /\ UNCHANGED <<questions, answers, session, scores, responses, before, others>>

NextResponses == ScoreResponses

SpecResponses == InitResponses /\ [][NextResponses]_vars

----------------------------------------------------------------------------
(* Properties of the pure helpers, under SpecScores *)

\* the letter the tie-break table of the specification names for a pair
DocumentedTieBreak(dim) ==
  CASE dim = "EI" -> "I" [] dim = "SN" -> "N" [] dim = "TF" -> "F" [] dim = "JP" -> "P"

\* C1: for every tally, _determine_personality_type returns four letters in
\* the order EI, SN, TF, JP; each is the pair's first letter if first > second,
\* its second letter if second > first, and I, N, F or P if the counts are
\* equal, whatever the other three pairs are.
C1_TypeResolver ==
  call.op = "resolve" =>
    /\ Len(call.result.type_code) = 4
    /\ \A i \in 1..4 :
         LET dim == Dimensions[i]
             first == scores[FirstLetter(dim)]
             second == scores[SecondLetter(dim)]
         IN  call.result.type_code[i] =
               IF first > second THEN <<"E", "S", "T", "J">>[i]
               ELSE IF second > first THEN <<"I", "N", "F", "P">>[i]
               ELSE DocumentedTieBreak(dim)

\* a tally with EI and TF tied (one of them at 0 = 0), SN won by S and JP by P
C1_Witness ==
  /\ call.op = "resolve"
  /\ scores.E = scores.I /\ scores.E > 0
  /\ scores.T = 0 /\ scores.F = 0
  /\ scores.S > scores.N
  /\ scores.P > scores.J
  /\ call.result.type_code = <<"I", "S", "F", "P">>

Half == Frac(1, 2)
One == Frac(1, 1)

\* C10: for every pair with total > 0, _calculate_preference_strengths gives
\* first/total and second/total, they sum to exactly 1, and the larger of the
\* two lies in [0.5, 1.0] and is 0.5 only when the pair is tied.
C10_StrengthRange ==
  call.op = "resolve" =>
    \A dim \in DimensionSet :
      LET first == scores[FirstLetter(dim)]
          second == scores[SecondLetter(dim)]
          total == first + second
          strengths == call.result.preference_strengths
      IN  total > 0 =>
            /\ {FirstLetter(dim), SecondLetter(dim)} \subseteq DOMAIN strengths
            /\ LET first_strength == strengths[FirstLetter(dim)]
                   second_strength == strengths[SecondLetter(dim)]
                   winning == FracMax(first_strength, second_strength)
               IN  /\ first_strength.d > 0 /\ second_strength.d > 0
                   /\ first_strength.n * total = first * first_strength.d
                   /\ second_strength.n * total = second * second_strength.d
                   /\ FracEq(FracAdd(first_strength, second_strength), One)
                   /\ ~FracLess(winning, Half)
                   /\ ~FracLess(One, winning)
                   /\ FracEq(winning, Half) => first = second

\* a pair of 36 answers tied 18 to 18, next to pairs without answers
C10_Witness ==
  /\ call.op = "resolve"
  /\ scores.S = 18 /\ scores.N = 18
  /\ FracEq(call.result.preference_strengths["S"], Half)
  /\ "E" \notin DOMAIN call.result.preference_strengths

----------------------------------------------------------------------------
(* Properties of the two session entry points, under Spec *)

SessionCall == call.op \in {"basic", "enhanced"}

\* C2: for every catalog and every complete answer set, ties included, the
\* type code the enhanced variant returns equals the type code the basic
\* variant returns on the same input.
C2_EnhancedTypeEqualsBasic ==
  /\ call.outcome = "ok" /\ prior.outcome = "ok"
  /\ {call.op, prior.op} = {"basic", "enhanced"}
  => call.result.type_code = prior.result.type_code

\* C3: a scoring call that fails (session not found, not completed, answer
\* count other than 36, failed commit) raises, and the session's type id, four
\* strengths and four clarities are what they were before the call.
C3_FailureLeavesSession ==
  SessionCall /\ call.outcome = "error" =>
    /\ call.result = NoResult
    /\ Len(session) = Len(before)
    /\ \A i \in 1..Len(session) : ResultFields(session[i]) = ResultFields(before[i])

\* a commit fails on a session an earlier call has scored
C3_Witness ==
  /\ call.op = "basic" /\ call.error = "commit_failed"
  /\ prior.op = "enhanced" /\ prior.outcome = "ok"
  /\ session # <<>> /\ session = before
  /\ session[1].personality_type_id # NoneId

\* C4: scoring 36 answers of which one references a question id absent from
\* the catalog, or an inactive question, fails with an error and returns no
\* result.
C4_UnknownQuestionFails ==
  /\ SessionCall
  /\ Len(answers) = ExpectedAnswers
  /\ \E i \in 1..Len(answers) : ~Known(questions, answers[i].question_id)
  => call.outcome = "error" /\ call.result = NoResult

\* the number of answers whose question carries the dimension
AnswersTagged(dim) ==
  Cardinality({i \in 1..Len(answers) :
                 /\ answers[i].question_id \in DOMAIN questions
                 /\ questions[answers[i].question_id].dimension = dim})

\* the per-dimension totals of the last result
ResultTotal(dim) ==
  IF call.op = "basic"
  THEN DimTotal(call.result.dimension_scores, dim)
  ELSE IF dim \in DOMAIN call.result.dimension_analyses
       THEN call.result.dimension_analyses[dim].total_questions
       ELSE 0

\* C5: after the tally of an accepted answer set, each pair's two counts add
\* up to the number of answers tagged with its dimension, and the four totals
\* add up to the number of answers submitted, 36.
C5_TallySums ==
  SessionCall /\ call.outcome = "ok" =>
    /\ \A dim \in DimensionSet : ResultTotal(dim) = AnswersTagged(dim)
    /\ ResultTotal("EI") + ResultTotal("SN") + ResultTotal("TF") + ResultTotal("JP")
         = Len(answers)
    /\ Len(answers) = 36

\* C6: for a fixed catalog and answer set, any two invocations of
\* calculate_personality_type return the same result: type code, the eight
\* counts, the letter percentages, the clarity categories and the borderline
\* list.
C6_BasicDeterministic ==
  /\ call.op = "basic" /\ call.outcome = "ok"
  /\ prior.op = "basic" /\ prior.outcome = "ok"
  => call.result = prior.result

\* two successful calls in a row on answers that leave a dimension borderline
\* and another one decided
C6_Witness ==
  /\ call.op = "basic" /\ call.outcome = "ok"
  /\ prior.op = "basic" /\ prior.outcome = "ok"
  /\ call.result.borderline_dimensions # <<>>
  /\ Len(call.result.borderline_dimensions) < 4
  /\ call.result.dimension_scores.E # call.result.dimension_scores.I

\* C9: when the active catalog has no question of some dimension, scoring
\* fails with a configuration error and returns no type code whose letter for
\* that dimension is a default.
C9_MissingDimensionFails ==
  /\ SessionCall
  /\ \E dim \in DimensionSet : count_questions_per_dimension(questions)[dim] = 0
  => call.outcome = "error" /\ call.result = NoResult

----------------------------------------------------------------------------
(* Properties of the raw-response entry point, under SpecResponses *)

\* the rows of a response list without a 3: A for 1 and 2, B for 4 and 5
MappedRows ==
  [i \in 1..Len(responses) |->
     [question_id |-> i,
      selected_option |-> IF responses[i].value <= 2 THEN "A" ELSE "B"]]

\* C7: calculate_personality_type_from_responses maps every response <= 2 to
\* option A and every response >= 4 to option B, and resolves 3 by a
\* deterministic policy: for a fixed catalog and a fixed list of 36 responses,
\* every invocation returns the same tallies and the same type code.
C7_ResponsesDeterministic ==
  /\ call.op = "responses" /\ call.outcome = "ok" /\ NeutralPositions(responses) = {}
     => call.result.dimension_scores = calculate_dimension_scores(MappedRows, questions)
  /\ /\ call.op = "responses" /\ call.outcome = "ok"
     /\ prior.op = "responses" /\ prior.outcome = "ok"
     => /\ call.result.dimension_scores = prior.result.dimension_scores
        /\ call.result.type_code = prior.result.type_code

\* C8: calculate_personality_type_from_responses rejects with an error, before
\* any dimension counter is incremented and without returning a result, every
\* input whose length is not 36 or that holds a value that is not an integer
\* in 1..5.
C8_InvalidResponsesRejected ==
  /\ call.op = "responses"
  /\ \/ Len(responses) # 36
     \/ \E i \in 1..Len(responses) :
          ~(responses[i].is_int /\ responses[i].value \in 1..5)
  => /\ call.outcome = "error"
     /\ call.result = NoResult
     /\ call.passes = 0

\* 35 valid responses followed by a value that is not an int
C8_Witness ==
  /\ call.op = "responses"
  /\ Len(responses) = 36
  /\ \A i \in 1..35 : responses[i].is_int /\ responses[i].value \in 1..5
  /\ ~responses[36].is_int
  /\ call.outcome = "error" /\ call.error = "invalid_response"

----------------------------------------------------------------------------
(* Properties of the clarity and borderline helpers, under SpecScores *)

\* the larger of a pair's two counts
WinningCount(dim) ==
  IF scores[FirstLetter(dim)] >= scores[SecondLetter(dim)]
  THEN scores[FirstLetter(dim)] ELSE scores[SecondLetter(dim)]

C14_BorderlineList ==
  call.op = "resolve" =>
    call.result.borderline_dimensions =
      SelectSeq(<<"EI", "SN", "TF", "JP">>,
                LAMBDA dim : 100 * WinningCount(dim) < 55 * DimTotal(scores, dim)
                             \/ DimTotal(scores, dim) = 0)

\* a pair of 20 answers at exactly 0.55 (11 to 9) is not listed, the three
\* pairs without answers are
C14_Witness ==
  /\ call.op = "resolve"
  /\ scores.E = 11 /\ scores.I = 9
  /\ call.result.borderline_dimensions = <<"SN", "TF", "JP">>

----------------------------------------------------------------------------
(* Properties of the professional classification, under SpecScores *)

ClarityRank(category) ==
  CASE category = "SLIGHT" -> 1 [] category = "MODERATE" -> 2
    [] category = "CLEAR" -> 3 [] category = "VERY_CLEAR" -> 4

\* C13: for a fixed dimension total n and both threshold tables, raising the
\* winning-side count from k to k + 1 (k + 1 <= n) never lowers the clarity
\* category in the order SLIGHT < MODERATE < CLEAR < VERY_CLEAR.
C13_ClarityMonotone ==
  \A dim \in DimensionSet :
    LET n == DimTotal(scores, dim)
        k == WinningCount(dim)
    IN  n > 0 /\ k + 1 <= n =>
          /\ call.op = "resolve" =>
               ClarityRank(calculate_preference_clarity(
                             calculate_preference_strengths(
                               [PersonalityScores EXCEPT ![FirstLetter(dim)] = k + 1,
                                                         ![SecondLetter(dim)] = n - k - 1]))[dim])
                 >= ClarityRank(call.result.preference_clarity[dim])
          /\ call.op = "analyse" =>
               ClarityRank(determine_strength_category(Frac(k + 1, n)))
                 >= ClarityRank(call.result.dimension_analyses[dim].strength_category)

\* 21 of 36 is SLIGHT in both tables, 22 of 36 is MODERATE in the basic one
C13_Witness ==
  /\ call.op = "resolve"
  /\ scores.J = 21 /\ scores.P = 15
  /\ call.result.preference_clarity["JP"] = "SLIGHT"
  /\ ClarityOf(Frac(22, 36)) = "MODERATE"

----------------------------------------------------------------------------
(* Properties of the enhanced variant's confidences and of the write-back,
   under Spec *)

\* the session is found and completed and holds 36 answer rows
SessionAccepted ==
  /\ session # <<>>
  /\ session[1].is_completed
  /\ Len(answers) = ExpectedAnswers

\* C15: in the enhanced variant, whenever a dimension that has answers is
\* exactly tied, the per-dimension confidence that enters the geometric mean
\* of the overall type confidence is the tie-break confidence 0.51.
C15_TieConfidence ==
  call.op = "enhanced" /\ call.outcome = "ok" =>
    \A dim \in DOMAIN call.result.dimension_analyses :
      LET analysis == call.result.dimension_analyses[dim]
      IN  2 * analysis.raw_score = analysis.total_questions =>
            call.result.confidence_scores[dim] = Frac(51 * 51, 100 * 100)

\* C16: for every complete 36-answer input, all-A, all-B and alternating
\* included, the enhanced variant completes without error and its confidences
\* lie in [0, 1] (stated here: the call returns a result, and each of the
\* per-dimension confidences it averages lies in [0, 1]).
C16_EnhancedCompletes ==
  call.op = "enhanced" /\ SessionAccepted /\ call.error # "commit_failed" =>
    /\ call.outcome = "ok"
    /\ \A dim \in DimensionSet :
         /\ ~FracLess(call.result.confidence_scores[dim], Zero)
         /\ ~FracLess(Frac(1, 1), call.result.confidence_scores[dim])

\* C20: after a successful scoring call of either variant the stored
\* e_strength, s_strength, t_strength and j_strength are the shares of E, S, T
\* and J answers in their dimensions, the four stored clarity fields are the
\* clarity categories of the returned result, and the stored type is that of
\* the returned type code.
C20_StoredFields ==
  SessionCall /\ call.outcome = "ok" =>
    LET stored == session[1]
        sc == calculate_dimension_scores(answers, questions)
        share(dim, value) ==
          DimTotal(sc, dim) > 0 =>
            value.d > 0 /\ FracEq(value, Frac(sc[FirstLetter(dim)], DimTotal(sc, dim)))
        clarity(dim, value) ==
          dim \in DOMAIN call.result.preference_clarity =>
            value = call.result.preference_clarity[dim]
    IN  /\ share("EI", stored.e_strength) /\ share("SN", stored.s_strength)
        /\ share("TF", stored.t_strength) /\ share("JP", stored.j_strength)
        /\ clarity("EI", stored.ei_clarity) /\ clarity("SN", stored.sn_clarity)
        /\ clarity("TF", stored.tf_clarity) /\ clarity("JP", stored.jp_clarity)
        /\ stored.personality_type_id = call.result.type_code

----------------------------------------------------------------------------
(* Properties of the statistical metrics and of the scenarios, under Spec *)

\* C17: for every dimension's list of binary responses with at least two
\* answers the variance used by _calculate_internal_consistency is at most
\* 0.25, so each per-dimension consistency 1 - variance/0.25 and their average
\* internal_consistency lie in [0, 1].
C17_InternalConsistencyRange ==
  call.op = "enhanced" /\ call.outcome = "ok" =>
    LET metric == call.result.statistical_metrics.internal_consistency
    IN  /\ \A dim \in DimensionSet :
             metric.per_dimension[dim].counted =>
               /\ ~FracLess(Frac(1, 4), metric.per_dimension[dim].variance)
               /\ ~FracLess(metric.per_dimension[dim].consistency, Zero)
               /\ ~FracLess(Frac(1, 1), metric.per_dimension[dim].consistency)
        /\ ~FracLess(metric.value, Zero)
        /\ ~FracLess(Frac(1, 1), metric.value)

\* every question maps option A to the first letter and all 36 answers are A
AllFirstLetterAnswers ==
  /\ \A id \in DOMAIN questions : questions[id].option_a_maps_to_first
  /\ Len(answers) = 36
  /\ \A i \in 1..Len(answers) : answers[i].selected_option = "A"

\* C18: with a catalog whose questions all map option A to the first letter
\* and 36 answers A, scoring yields ESTJ, winning-side strength 1.0 and
\* clarity VERY_CLEAR on all four dimensions, an empty borderline list and, in
\* the enhanced variant, extreme_response_bias 1.0.
C18_AllFirstLetters ==
  AllFirstLetterAnswers /\ SessionCall /\ call.outcome = "ok" =>
    /\ call.result.type_code = <<"E", "S", "T", "J">>
    /\ call.op = "basic" =>
         /\ \A dim \in DimensionSet :
              /\ FirstLetter(dim) \in DOMAIN call.result.preference_strengths
              /\ FracEq(call.result.preference_strengths[FirstLetter(dim)], Frac(1, 1))
              /\ call.result.preference_clarity[dim] = "VERY_CLEAR"
         /\ call.result.borderline_dimensions = <<>>
    /\ call.op = "enhanced" =>
         /\ \A dim \in DimensionSet :
              /\ dim \in DOMAIN call.result.dimension_analyses
              /\ FracEq(call.result.dimension_analyses[dim].percentage, Frac(1, 1))
              /\ call.result.dimension_analyses[dim].strength_category = "VERY_CLEAR"
         /\ FracEq(call.result.statistical_metrics.extreme_response_bias, Frac(1, 1))

\* the shipped catalog, answered A, B, A, B, ... and scored by the basic variant
ShippedAlternating ==
  /\ questions = ShippedCatalog
  /\ answers = AlternatingAnswers
  /\ call.op = "basic" /\ call.outcome = "ok"

\* C19 as stated: with the shipped catalog and answers alternating A, B, A,
\* B, ... in question order, the two counts of every dimension differ by at
\* most 1, and every dimension that is not tied is SLIGHT and in the
\* borderline list.
C19_AlternatingNearEven ==
  ShippedAlternating =>
    \A i \in 1..4 :
      LET dim == Dimensions[i]
          first == call.result.dimension_scores[FirstLetter(dim)]
          second == call.result.dimension_scores[SecondLetter(dim)]
      IN  /\ first - second \in {-1, 0, 1}
          /\ first # second =>
               /\ call.result.preference_clarity[dim] = "SLIGHT"
               /\ \E j \in 1..Len(call.result.borderline_dimensions) :
                    call.result.borderline_dimensions[j] = dim

\* C19, amended: with the shipped catalog and answers alternating A, B, A,
\* B, ... in question order every dimension's tally is 6 to 3 (E, N, T and P
\* ahead: each run of three questions gets A, B, A or B, A, B), the type is
\* ENTP, and every dimension has strength 2/3, is MODERATE and is not in the
\* borderline list.
C19_AlternatingTwoThirds ==
  ShippedAlternating =>
    /\ call.result.dimension_scores =
         [E |-> 6, I |-> 3, S |-> 3, N |-> 6, T |-> 6, F |-> 3, J |-> 3, P |-> 6]
    /\ call.result.type_code = <<"E", "N", "T", "P">>
    /\ \A dim \in DimensionSet :
         /\ FracEq(DominantStrength(call.result.preference_strengths, dim), Frac(2, 3))
         /\ call.result.preference_clarity[dim] = "MODERATE"
    /\ call.result.borderline_dimensions = <<>>

\* the shipped catalog scored on alternating answers
C19_Witness ==
  /\ ShippedAlternating
  /\ session # <<>>
  /\ session[1].personality_type_id = <<"E", "N", "T", "P">>
  /\ session[1].ei_clarity = "MODERATE"

----------------------------------------------------------------------------
(* Repeated calls, under Spec *)

\* C21: calculate_personality_type run twice in succession on the same
\* completed session, answers and catalog unchanged, leaves the stored type
\* id, the four strengths and the four clarity fields as the first run left
\* them, and both runs return equal results.
C21_RescoreIdempotent ==
  /\ call.op = "basic" /\ call.outcome = "ok"
  /\ prior.op = "basic" /\ prior.outcome = "ok"
  => /\ ResultFields(session[1]) = ResultFields(before[1])
     /\ session[1].is_completed = before[1].is_completed
     /\ call.result = prior.result

\* a second successful run on a session the first run has filled in, with
\* strengths that are neither 0 nor 1
C21_Witness ==
  /\ call.op = "basic" /\ call.outcome = "ok"
  /\ prior.op = "basic" /\ prior.outcome = "ok"
  /\ before[1].personality_type_id # NoneId
  /\ before[1].ei_clarity # None
  /\ FracLess(Zero, session[1].e_strength)
  /\ FracLess(session[1].e_strength, One)

----------------------------------------------------------------------------
(* The assessment routes (routes/assessment.py).  Every request is handled by
   a worker with a database session of its own: what a worker has loaded or
   assigned stays with it until it commits, and a commit takes effect at
   once.  The statements of a handler that read or write the database are
   steps of their own, so that the requests of two workers interleave. *)

\* bound of the model: the number of workers that handle requests at a time
MaxWorkers == 2

Workers == 1..MaxWorkers

\* the value of a key that a JSON object does not have
Missing == "missing"

\* a response: status code and error, and the fields the properties read
NoReply == [status |-> 0, error |-> "", is_complete |-> FALSE, preference_strengths |-> <<>>]

Reply(status, error) == [NoReply EXCEPT !.status = status, !.error = error]

\* a worker's request: the route, the place the handler has reached, the
\* request's fields, and the handler's local variables
NoRequest ==
  [route |-> "none", pc |-> "idle", token_ok |-> TRUE,
   question_id |-> 0, selected_option |-> "", payload |-> <<>>,
   loaded |-> <<>>, dirty |-> <<>>, existing |-> 0, rows |-> <<>>,
   result |-> NoResult, reply |-> NoReply]

\* the request with the response the handler returns; the handler's local
\* variables are gone
Done(req, reply) ==
  [req EXCEPT !.pc = "respond", !.reply = reply,
              !.loaded = <<>>, !.dirty = <<>>, !.existing = 0, !.rows = <<>>]

\* worker w takes its request one step on
Step(w, next) == requests' = [requests EXCEPT ![w] = next]

MaxOf(S) == IF S = {} THEN 0 ELSE CHOOSE m \in S : \A x \in S : x <= m

RowIds(rows) == {rows[i].id : i \in 1..Len(rows)}

\* the primary key of the next inserted row: one more than the highest id in
\* the table (an id may come back after its row was deleted), or an id that
\* was never handed out before
NextId(rows, reqs, reuse) ==
  IF reuse THEN MaxOf(RowIds(rows)) + 1
  ELSE MaxOf(RowIds(rows) \cup {reqs[w].existing : w \in Workers}) + 1

DatabaseUnchanged == UNCHANGED <<questions, answers, session>>

RoutesOnly == UNCHANGED <<scores, responses, call, prior, before, cache, limiter>>

\* POST /submit-answer: the requests <<token_ok, question_id, selected_option>>
\* that are sent.  They name the last question or one that does not exist,
\* and option A or B; one names an option that does not exist and one carries
\* the token of no session
\* a check that lets every session through
CompletedIgnored(sess) == FALSE

\* if session.is_completed: the submit routes refuse the request
AlreadyCompleted(sess) == sess.is_completed

AnswerQuestionIds == {ExpectedAnswers, ExpectedAnswers + 1}

AnswerRequests ==
  ({TRUE} \X AnswerQuestionIds \X {"A", "B"})
    \cup {<<TRUE, ExpectedAnswers, "C">>, <<FALSE, ExpectedAnswers, "A">>}

\* an idle worker takes the request; the handler checks the fields, looks the
\* session up and refuses a completed one, and looks the question up
SubmitAnswerStart ==
  /\ \E w \in Workers, sent \in AnswerRequests :
       LET token_ok == sent[1]
           question_id == sent[2]
           selected_option == sent[3]
           req == [NoRequest EXCEPT !.route = "submit_answer", !.token_ok = token_ok,
                                    !.question_id = question_id,
                                    !.selected_option = selected_option]
       IN  /\ requests[w] = NoRequest
           /\ Step(w, IF selected_option \notin {"A", "B"}
                THEN Done(req, Reply(400, "selected_option must be either A or B"))
                ELSE IF ~token_ok THEN Done(req, Reply(404, "Invalid session token"))
                ELSE IF AlreadyCompleted(session[1])
                THEN Done(req, Reply(400, "Assessment already completed"))
                ELSE IF ~Known(questions, question_id)
                THEN Done(req, Reply(404, "Invalid question ID"))
                ELSE [req EXCEPT !.pc = "lookup", !.loaded = session])
  /\ DatabaseUnchanged /\ RoutesOnly

\* a table without the constraint
Unconstrained(rows, question_id) == {}

\* UniqueConstraint('session_id', 'question_id'): the stored rows an INSERT
\* for the question collides with
UniqueViolation(rows, question_id) ==
  {i \in 1..Len(rows) : rows[i].question_id = question_id}

\* existing_answer = AssessmentAnswer.query.filter_by(...).first()
SubmitAnswerLookup ==
  /\ \E w \in Workers :
       LET req == requests[w]
           found == {answers[i].id : i \in {j \in 1..Len(answers) :
                                              answers[j].question_id = req.question_id}}
       IN  /\ req.route = "submit_answer" /\ req.pc = "lookup"
           /\ Step(w, [req EXCEPT !.pc = "write",
                                           !.existing = MaxOf(found)])
  /\ DatabaseUnchanged /\ RoutesOnly

\* the assignment to the loaded row, or db.session.add(answer), and then
\* db.session.commit(): the UPDATE of a row that is gone raises StaleDataError
\* and the INSERT of a second row for the question violates the unique
\* constraint; both are rolled back and answered with 500
SubmitAnswerWrite ==
  /\ \E w \in Workers, reuse \in BOOLEAN :
       LET req == requests[w]
           same_id == {i \in 1..Len(answers) : answers[i].id = req.existing}
           same_question == UniqueViolation(answers, req.question_id)
           failed == Done(req, Reply(500, "Failed to submit answer"))
       IN  /\ req.route = "submit_answer" /\ req.pc = "write"
           /\ IF req.existing # 0
              THEN IF same_id = {}
                   THEN /\ Step(w, failed)
                        /\ answers' = answers
                   ELSE /\ Step(w, [req EXCEPT !.pc = "count"])
                        /\ answers' = [i \in 1..Len(answers) |->
                                         IF i \in same_id
                                         THEN [answers[i] EXCEPT
                                                 !.selected_option = req.selected_option]
                                         ELSE answers[i]]
              ELSE IF same_question # {}
                   THEN /\ Step(w, failed)
                        /\ answers' = answers
                   ELSE /\ Step(w, [req EXCEPT !.pc = "count"])
                        /\ answers' = Append(answers,
                                             [id |-> NextId(answers, requests, reuse),
                                              question_id |-> req.question_id,
                                              selected_option |-> req.selected_option])
  /\ UNCHANGED <<questions, session>> /\ RoutesOnly

\* the two counts after the commit, and the response
SubmitAnswerCount ==
  /\ \E w \in Workers :
       LET req == requests[w]
           total_questions == Cardinality(ActiveIds(questions))
           answered_questions == Len(answers)
       IN  /\ req.route = "submit_answer" /\ req.pc = "count"
           /\ Step(w, Done(req, [Reply(200, "") EXCEPT
                             !.is_complete = (answered_questions >= total_questions)]))
  /\ DatabaseUnchanged /\ RoutesOnly

\* POST /submit-assessment: the answers arrays requests carry.  Entry i of a
\* well-formed array answers question i; the option patterns are all B and
\* A, B, A, B, ...
PayloadPatterns == {<<1, 0>>, <<2, 1>>}

Entries(m, t) ==
  [i \in 1..ExpectedAnswers |->
     [question_id |-> i, selected_option |-> IF (i - 1) % m < t THEN "A" ELSE "B"]]

PayloadFaults == {"short", "bad_option", "no_option", "unknown_question", "duplicate"}

Faulty(entries, fault) ==
  LET last == Len(entries)
  IN  CASE fault = "short" -> SubSeq(entries, 1, last - 1)
        [] fault = "bad_option" -> [entries EXCEPT ![last].selected_option = "C"]
        [] fault = "no_option" -> [entries EXCEPT ![last].selected_option = Missing]
        [] fault = "unknown_question" -> [entries EXCEPT ![last].question_id = last + 1]
        [] fault = "duplicate" -> [entries EXCEPT ![last].question_id = 1]

Payloads ==
  {Entries(p[1], p[2]) : p \in PayloadPatterns}
    \cup {Faulty(Entries(2, 1), fault) : fault \in PayloadFaults}

\* the requests <<token_ok, answers>> that are sent: every array with the
\* token of the session, and one with the token of no session
AssessmentRequests == ({TRUE} \X Payloads) \cup {<<FALSE, Entries(2, 1)>>}

\* the checks of the answers array that need no database
\* the checks of the entries without the check of their number
EntriesErrorOnly(payload) ==
  IF \E i \in 1..Len(payload) : payload[i].selected_option = Missing
  THEN "Each answer must have question_id and selected_option"
  ELSE IF \E i \in 1..Len(payload) : payload[i].selected_option \notin {"A", "B"}
  THEN "selected_option must be either A or B"
  ELSE ""

PayloadError(payload) ==
  IF \E i \in 1..Len(payload) : payload[i].selected_option = Missing
  THEN "Each answer must have question_id and selected_option"
  ELSE IF \E i \in 1..Len(payload) : payload[i].selected_option \notin {"A", "B"}
  THEN "selected_option must be either A or B"
  ELSE IF Len(payload) # 36 THEN "All 36 questions must be answered"
  ELSE ""

\* an idle worker takes the request; the handler looks the session up, refuses
\* a completed one and checks the answers array
SubmitAssessmentStart ==
  /\ \E w \in Workers, sent \in AssessmentRequests :
       LET token_ok == sent[1]
           payload == sent[2]
           req == [NoRequest EXCEPT !.route = "submit_assessment",
                                    !.token_ok = token_ok, !.payload = payload]
       IN  /\ requests[w] = NoRequest
           /\ Step(w, IF ~token_ok THEN Done(req, Reply(404, "Invalid session token"))
                ELSE IF AlreadyCompleted(session[1])
                THEN Done(req, Reply(400, "Assessment already completed"))
                ELSE IF PayloadError(payload) # ""
                THEN Done(req, Reply(400, PayloadError(payload)))
                ELSE [req EXCEPT !.pc = "write", !.loaded = session])
  /\ DatabaseUnchanged /\ RoutesOnly

\* the DELETE of the session's answers made permanent
DeleteCommitted(rows) == <<>>

\* the stored answers after a request that returns or fails between its
\* DELETE and its commit: the transaction is rolled back when the request's
\* database session is removed
RolledBack(rows) == rows

\* the entries whose question is not an active question, and the entries that
\* name the question of an earlier entry
UnknownEntries(payload, qs) ==
  {i \in 1..Len(payload) : ~Known(qs, payload[i].question_id)}

RepeatedEntries(payload) ==
  {i \in 1..Len(payload) :
     \E k \in 1..(i - 1) : payload[k].question_id = payload[i].question_id}

\* the new rows of the session, in the order of the array
InsertedRows(payload, first_id) ==
  [i \in 1..Len(payload) |->
     [id |-> first_id + i - 1, question_id |-> payload[i].question_id,
      selected_option |-> payload[i].selected_option]]

\* the transaction of the handler: DELETE of the session's rows, one question
\* lookup and one INSERT per entry, is_completed = True, commit.  The handler
\* returns 404 at the first entry whose question is not active, and the
\* transaction it leaves open is rolled back when the request ends; the row
\* of a repeated entry violates the unique constraint when it is flushed,
\* before the lookup of the next entry or at the commit, and the handler rolls
\* back and answers 500.  Only the commit changes the database.
SubmitAssessmentWrite ==
  /\ \E w \in Workers, reuse \in BOOLEAN :
       LET req == requests[w]
           unknown == UnknownEntries(req.payload, questions)
           repeated == RepeatedEntries(req.payload)
           first_unknown == CHOOSE i \in unknown : \A k \in unknown : i <= k
           first_repeated == CHOOSE i \in repeated : \A k \in repeated : i <= k
       IN  /\ req.route = "submit_assessment" /\ req.pc = "write"
           /\ IF unknown # {} /\ (repeated = {} \/ first_unknown <= first_repeated)
              THEN /\ Step(w, Done(req, Reply(404, "Invalid question ID")))
                   /\ answers' = RolledBack(answers)
                   /\ UNCHANGED session
              ELSE IF repeated # {}
              THEN /\ Step(w, Done(req, Reply(500, "Failed to submit assessment")))
                   /\ answers' = RolledBack(answers)
                   /\ UNCHANGED session
              ELSE /\ Step(w, Done(req, Reply(200, "")))
                   /\ answers' = InsertedRows(req.payload,
                                               IF reuse THEN NextId(<<>>, requests, TRUE)
                                               ELSE NextId(answers, requests, FALSE))
                   /\ session' = <<[session[1] EXCEPT !.is_completed = TRUE]>>
  /\ UNCHANGED questions /\ RoutesOnly

\* PersonalityScoringService.validate_answers_completeness(session.id)
validate_answers_completeness(rows, qs) ==
  LET counted(dim) == {i \in 1..Len(rows) :
                         /\ Known(qs, rows[i].question_id)
                         /\ qs[rows[i].question_id].dimension = dim}
  IN  /\ Len(rows) = 36
      /\ \A dim \in DimensionSet : counted(dim) # {}

\* round(x * 100, 1), in tenths of a percent: to the nearest tenth, a half to
\* the even one
RoundTenths(x) ==
  LET whole == (1000 * x.n) \div x.d
      rest == (1000 * x.n) % x.d
  IN  IF 2 * rest > x.d \/ (2 * rest = x.d /\ whole % 2 = 1) THEN whole + 1 ELSE whole

\* 'preference_strengths' of the calculate-results response
ReturnedStrengths(strengths) ==
  [letter \in Letters |-> RoundTenths(StrengthGet(strengths, letter))]

\* 'preference_strengths' of the GET /results response: a stored strength that
\* is None or 0.0 is false, and both letters of its pair are reported as 0
StoredStrengths(sess) ==
  LET stored == [EI |-> sess.e_strength, SN |-> sess.s_strength,
                 TF |-> sess.t_strength, JP |-> sess.j_strength]
      set(dim) == stored[dim] # NoneFloat /\ stored[dim].n # 0
  IN  [letter \in Letters |->
         LET dim == DimOfLetter(letter)
         IN  IF ~set(dim) THEN 0
             ELSE IF letter = FirstLetter(dim) THEN RoundTenths(stored[dim])
             ELSE RoundTenths(Frac(stored[dim].d - stored[dim].n, stored[dim].d))]

\* an UPDATE that carries only the type column
FlushTypeOnly(row, loaded, dirty) ==
  [row EXCEPT !.personality_type_id = dirty.personality_type_id]

\* the UPDATE a commit sends for a loaded row: the columns whose assigned
\* value differs from the loaded one
FlushChanged(row, loaded, dirty) ==
  [column \in DOMAIN row |->
     IF dirty[column] # loaded[column] THEN dirty[column] ELSE row[column]]

\* POST /calculate-results: an idle worker takes the request; the handler
\* looks the session up and refuses one that is not completed
CalculateResultsStart ==
  /\ \E w \in Workers, token_ok \in BOOLEAN :
       LET req == [NoRequest EXCEPT !.route = "calculate_results", !.token_ok = token_ok]
       IN  /\ requests[w] = NoRequest
           /\ Step(w, IF ~token_ok THEN Done(req, Reply(404, "Invalid session token"))
                ELSE IF ~session[1].is_completed
                THEN Done(req, Reply(400, "Assessment must be completed before calculating results"))
                ELSE [req EXCEPT !.pc = "validate", !.loaded = session])
  /\ DatabaseUnchanged /\ RoutesOnly

\* scoring_service.validate_answers_completeness(session.id)
CalculateResultsValidate ==
  /\ \E w \in Workers :
       LET req == requests[w]
       IN  /\ req.route = "calculate_results" /\ req.pc = "validate"
           /\ Step(w, IF validate_answers_completeness(answers, questions)
                THEN [req EXCEPT !.pc = "read"]
                ELSE Done(req, Reply(400, "Invalid or incomplete answers")))
  /\ DatabaseUnchanged /\ RoutesOnly

\* calculate_personality_type(session.id): the session comes from the
\* worker's identity map, the answers are read from the database
CalculateResultsRead ==
  /\ \E w \in Workers :
       LET req == requests[w]
       IN  /\ req.route = "calculate_results" /\ req.pc = "read"
           /\ Step(w, IF ValidateSession(req.loaded, answers) # "ok"
                THEN Done(req, Reply(400, "Validation error"))
                ELSE [req EXCEPT !.pc = "compute", !.rows = answers])
  /\ DatabaseUnchanged /\ RoutesOnly

\* the tally, the type, the strengths, the clarity, the borderline list
CalculateResultsCompute ==
  /\ \E w \in Workers :
       LET req == requests[w]
       IN  /\ req.route = "calculate_results" /\ req.pc = "compute"
           /\ \E result \in {BasicComputation(req.rows, questions)} :
                Step(w, [req EXCEPT !.pc = "assign", !.rows = <<>>,
                                             !.result = result])
  /\ DatabaseUnchanged /\ RoutesOnly

\* the assignments of _update_session_with_results to the loaded session
CalculateResultsAssign ==
  /\ \E w \in Workers :
       LET req == requests[w]
       IN  /\ req.route = "calculate_results" /\ req.pc = "assign"
           /\ Step(w, [req EXCEPT !.pc = "commit",
                !.dirty = <<AssignResults(req.loaded[1], req.result.type_code,
                                             req.result.preference_strengths,
                                             req.result.preference_clarity)>>])
  /\ DatabaseUnchanged /\ RoutesOnly

\* db.session.commit() of _update_session_with_results, and the response
CalculateResultsCommit ==
  /\ \E w \in Workers :
       LET req == requests[w]
       IN  /\ req.route = "calculate_results" /\ req.pc = "commit"
           /\ session' = <<FlushChanged(session[1], req.loaded[1], req.dirty[1])>>
           /\ Step(w, Done(req, [Reply(200, "") EXCEPT !.preference_strengths =
                             ReturnedStrengths(req.result.preference_strengths)]))
  /\ UNCHANGED <<questions, answers>> /\ RoutesOnly

\* GET /results/<session_token>
GetResults ==
  /\ \E w \in Workers, token_ok \in BOOLEAN :
       LET req == [NoRequest EXCEPT !.route = "get_results", !.token_ok = token_ok]
       IN  /\ requests[w] = NoRequest
           /\ Step(w, IF ~token_ok THEN Done(req, Reply(404, "Session not found"))
                ELSE IF ~session[1].is_completed
                THEN Done(req, Reply(400, "Assessment not completed"))
                ELSE IF session[1].personality_type_id = NoneId
                THEN Done(req, Reply(400, "Results not calculated yet"))
                ELSE Done(req, [Reply(200, "") EXCEPT !.preference_strengths =
                                  StoredStrengths(session[1])]))
  /\ DatabaseUnchanged /\ RoutesOnly

\* the response is sent and the worker is idle again
SendResponse ==
  /\ \E w \in Workers :
       /\ requests[w].pc = "respond"
       /\ Step(w, NoRequest)
  /\ DatabaseUnchanged /\ RoutesOnly

\* the states the routes start from: the shipped catalog, a session that is
\* not completed, and the answers submit-answer has stored so far for the
\* first stored questions
StoredCounts == {0, ExpectedAnswers - 1}

InitRoutes ==
  \E stored \in StoredCounts :
    /\ questions = ShippedCatalog
    /\ answers = SubSeq(InsertedRows(Entries(2, 1), 1), 1, stored)
    /\ session = <<NewSession(FALSE)>>
    /\ requests = [w \in Workers |-> NoRequest]
    /\ scores = PersonalityScores
    /\ responses = <<>>
    /\ call = NoCall
    /\ prior = NoCall
    /\ before = <<>>
    /\ cache = <<>>
    /\ limiter = <<>>

NextRoutes ==
  \/ SubmitAnswerStart \/ SubmitAnswerLookup \/ SubmitAnswerWrite \/ SubmitAnswerCount
  \/ SubmitAssessmentStart \/ SubmitAssessmentWrite
  \/ CalculateResultsStart \/ CalculateResultsValidate \/ CalculateResultsRead
  \/ CalculateResultsCompute \/ CalculateResultsAssign \/ CalculateResultsCommit
  \/ GetResults \/ SendResponse

SpecRoutes == InitRoutes /\ [][NextRoutes]_vars

----------------------------------------------------------------------------
(* Properties of the routes, under SpecRoutes *)

\* the result columns a single calculate-results call writes for the stored
\* answers
SingleCall(rows, qs) ==
  LET result == BasicComputation(rows, qs)
  IN  ResultFields(AssignResults(NewSession(TRUE), result.type_code,
                                 result.preference_strengths, result.preference_clarity))

\* worker w handles a calculate-results request
Calculating(w) == requests[w].route = "calculate_results"

\* the result columns of the session row are unset, or are what a call that
\* scored the present answers stored
StoredFromAnswers ==
  ResultFields(session[1]) \in {ResultFields(NewSession(TRUE)), SingleCall(answers, questions)}

\* C22: for calculate-results calls that run at the same time on the same
\* completed session, whose answers stay as they were when the first result was
\* stored, in every interleaving of their read, compute, assign and commit
\* steps, every commit of a call leaves the ten result columns as a single
\* call leaves them; so the last commit does, and no commit leaves a mix of
\* the columns of two calls.
C22_ConcurrentScoring ==
  [][\A w \in Workers :
       /\ Calculating(w) /\ requests[w].pc = "commit" /\ requests'[w].pc = "respond"
       /\ requests[w].result.dimension_scores = calculate_dimension_scores(answers, questions)
       /\ StoredFromAnswers
       => ResultFields(session'[1]) = SingleCall(answers, questions)]_vars

\* one call has committed, and the other, which loaded the session before
\* that commit, is about to commit
C22_Witness ==
  \E w \in Workers, v \in Workers :
    /\ Calculating(w) /\ requests[w].pc = "respond" /\ requests[w].reply.status = 200
    /\ Calculating(v) /\ requests[v].pc = "commit"
    /\ requests[v].loaded[1].personality_type_id = NoneId
    /\ session[1].personality_type_id # NoneId
    /\ requests[v].dirty[1].personality_type_id = session[1].personality_type_id


\* worker w, idle before the step, takes a submit-answer or submit-assessment
\* request for the session in the step
Submitting(w) ==
  /\ requests[w] = NoRequest
  /\ requests'[w].route \in {"submit_answer", "submit_assessment"}
  /\ requests'[w].token_ok

C24_CompletedHasAllAnswers ==
  session[1].is_completed
  => /\ Len(answers) = 36
     /\ \A i \in 1..Len(answers) :
          /\ answers[i].selected_option \in {"A", "B"}
          /\ Known(questions, answers[i].question_id)
          /\ \A j \in 1..Len(answers) :
               answers[i].question_id = answers[j].question_id => i = j

\* a submit-assessment request has just completed the session
C24_Witness ==
  /\ session[1].is_completed
  /\ \E w \in Workers :
       /\ requests[w].route = "submit_assessment" /\ requests[w].pc = "respond"
       /\ requests[w].reply.status = 200


\* the stored answers for a question
AnswersFor(rows, question_id) ==
  {i \in 1..Len(rows) : rows[i].question_id = question_id}

\* no two stored answers are for the same question
OneAnswerPerQuestion ==
  Cardinality({answers[i].question_id : i \in 1..Len(answers)}) = Len(answers)

\* C25: in every reachable state, whatever the interleaving of the lookup,
\* write and count steps of the workers' submit-answer requests, the session
\* holds at most one stored answer per question; and when a submit-answer
\* request that found a stored answer for its question writes, and that row
\* still answers the question, the question's answer afterwards carries the
\* submitted option and the number of stored answers is the same.
C25_OneAnswerPerQuestion ==
  /\ []OneAnswerPerQuestion
  /\ [][\A w \in Workers :
         /\ requests[w].route = "submit_answer" /\ requests[w].pc = "write"
         /\ requests'[w].pc # "write"
         /\ requests[w].existing # 0
         /\ \E i \in AnswersFor(answers, requests[w].question_id) :
              answers[i].id = requests[w].existing
         => /\ requests'[w].pc = "count"
            /\ Len(answers') = Len(answers)
            /\ \A i \in AnswersFor(answers', requests[w].question_id) :
                 answers'[i].selected_option = requests[w].selected_option
            /\ AnswersFor(answers', requests[w].question_id) # {}]_vars

\* two workers hold a submit-answer request for the same question at the same
\* time: one has inserted its answer, the other, which looked the question
\* up before, was refused by the constraint; and a later request for the
\* question found the stored answer and replaced its option
C25_Witness ==
  /\ \E w \in Workers, v \in Workers :
       /\ requests[w].route = "submit_answer" /\ requests[v].route = "submit_answer"
       /\ requests[w].question_id = requests[v].question_id
       /\ requests[w].pc = "respond" /\ requests[w].reply.status = 500
       /\ requests[v].pc = "count" /\ requests[v].existing # 0
       /\ \E i \in AnswersFor(answers, requests[v].question_id) :
            answers[i].selected_option = requests[v].selected_option
  /\ ~session[1].is_completed


\* the step in which worker w's submit-assessment request is refused
Refused(w) ==
  /\ requests'[w].route = "submit_assessment"
  /\ requests[w].pc # "respond" /\ requests'[w].pc = "respond"
  /\ requests'[w].reply.status # 200

\* C26: the step in which a submit-assessment request is refused, for an
\* invalid token, a completed session, an entry without an option or with an
\* option other than A and B, a number of entries other than 36, or an entry
\* for a question that is not an active question, leaves the stored answers
\* and the session row, is_completed included, as they were (the only step of
\* the request before a refusal at the write is the one that validates it,
\* which writes nothing).
C26_RejectedLeavesSession ==
  [][\A w \in Workers :
       Refused(w) => answers' = answers /\ session' = session]_vars

\* a request naming a question that is not in the catalog has been refused
\* after the delete, with answers stored before it
C26_Witness ==
  \E w \in Workers :
    /\ requests[w].route = "submit_assessment" /\ requests[w].pc = "respond"
    /\ requests[w].reply.status = 404 /\ requests[w].token_ok
    /\ UnknownEntries(requests[w].payload, questions) # {}
    /\ Len(answers) > 0 /\ ~session[1].is_completed


\* every active question has a stored answer, as the is_complete = true of a
\* submit-answer response reports
FullyAnswered ==
  /\ {answers[i].question_id : i \in 1..Len(answers)} = ActiveIds(questions)
  /\ Len(answers) >= Cardinality(ActiveIds(questions))

\* C27: a calculate-results request for a session in which every active
\* question has a stored answer is not refused when the handler looks the
\* session up, whether or not submit-assessment was called for the session.
C27_AnsweredCanBeScored ==
  [][\A w \in Workers :
       /\ requests[w] = NoRequest
       /\ requests'[w].route = "calculate_results" /\ requests'[w].token_ok
       /\ FullyAnswered
       => requests'[w].pc # "respond"]_vars


\* the step in which worker w answers a GET /results request with the stored
\* results, which are those a calculate-results call stored for the present
\* answers
ResultsReported(w) ==
  /\ requests[w] = NoRequest
  /\ requests'[w].route = "get_results" /\ requests'[w].reply.status = 200
  /\ ResultFields(session[1]) = SingleCall(answers, questions)

\* C28: for a completed and scored session GET /results reports, for each
\* letter, the percentage that the calculate-results call that stored the
\* results returned, and the two percentages of each pair sum to 100 (1000
\* tenths), also when one letter of a pair received all or none of the
\* answers.
C28_ResultsMatchCalculation ==
  [][\A w \in Workers :
       ResultsReported(w)
       => /\ requests'[w].reply.preference_strengths
               = ReturnedStrengths(BasicComputation(answers, questions).preference_strengths)
          /\ \A dim \in DimensionSet :
               requests'[w].reply.preference_strengths[FirstLetter(dim)]
                 + requests'[w].reply.preference_strengths[SecondLetter(dim)] = 1000]_vars


-----------------------------------------------------------------------------
\* InMemoryCache (services/caching_service.py).  Every public method runs
\* under self.lock, so a call is one step.  The cache value is the record
\* [entries, access_order, now, returned]: entries is the dict self.cache
\* (a key that is not in the dict maps to NoEntry), now is the reading of
\* datetime.now(), returned is what the last call returned.  The counters
\* in self.stats and entry.access_count are not modelled.

MaxSize == 2

MaxClock == 3

max_size == MaxSize

default_ttl == 2

CacheKeys == 1..(max_size + 1)

CacheValues == {"a", "b"}

\* ttl of set: no expiry, a second, or default_ttl when the argument is not
\* given
Ttls == {0, 1, default_ttl}

NoExpiry == -1

NoEntry ==
  [present |-> FALSE, value |-> None, created_at |-> 0,
   expires_at |-> NoExpiry, last_accessed |-> NoExpiry]

\* the keys of self.cache
Stored(c) == {key \in CacheKeys : c.entries[key].present}

\* list.remove(key): the list without the first occurrence of key
ListRemove(list, key) ==
  LET at == {i \in 1..Len(list) : list[i] = key}
      first == CHOOSE i \in at : \A k \in at : i <= k
  IN  IF at = {} THEN list
      ELSE SubSeq(list, 1, first - 1) \o SubSeq(list, first + 1, Len(list))

\* an eviction of the most recently used key
EvictMostRecent(c) ==
  IF c.access_order # <<>>
  THEN LET key == c.access_order[Len(c.access_order)]
       IN  [c EXCEPT !.entries[key] = NoEntry,
                     !.access_order = ListRemove(@, key)]
  ELSE c

remove_entry(c, key) ==
  [c EXCEPT !.entries[key] = NoEntry,
            !.access_order = ListRemove(@, key)]

evict_lru(c) ==
  IF c.access_order # <<>> THEN remove_entry(c, c.access_order[1]) ELSE c

\* the LRU update of get and set
Touch(list, key) == Append(ListRemove(list, key), key)

get(c, key) ==
  LET entry == c.entries[key]
  IN  IF ~entry.present THEN [c EXCEPT !.returned = None]
      ELSE IF entry.expires_at # NoExpiry /\ c.now > entry.expires_at
      THEN [remove_entry(c, key) EXCEPT !.returned = None]
      ELSE [c EXCEPT !.entries[key].last_accessed = c.now,
                     !.access_order = Touch(@, key),
                     !.returned = entry.value]

set(c, key, value, ttl) ==
  LET entry == [present |-> TRUE, value |-> value, created_at |-> c.now,
                expires_at |-> IF ttl > 0 THEN c.now + ttl ELSE NoExpiry,
                last_accessed |-> NoExpiry]
      room == IF Cardinality(Stored(c)) >= max_size /\ ~c.entries[key].present
              THEN evict_lru(c) ELSE c
  IN  [room EXCEPT !.entries[key] = entry,
                   !.access_order = Touch(@, key),
                   !.returned = "True"]

delete(c, key) ==
  IF c.entries[key].present
  THEN [remove_entry(c, key) EXCEPT !.returned = "True"]
  ELSE [c EXCEPT !.returned = "False"]

clear(c) ==
  [c EXCEPT !.entries = [key \in CacheKeys |-> NoEntry],
            !.access_order = <<>>,
            !.returned = None]

\* the state that neither the cache nor the rate limiter touches
Elsewhere == <<questions, answers, session, scores, responses, call, prior, before, requests>>

NothingElse ==
  /\ questions = <<>> /\ answers = <<>> /\ session = <<>>
  /\ scores = PersonalityScores /\ responses = <<>>
  /\ call = NoCall /\ prior = NoCall /\ before = <<>> /\ requests = <<>>

InitCache ==
  /\ cache = [entries |-> [key \in CacheKeys |-> NoEntry], access_order |-> <<>>,
              now |-> 0, returned |-> None]
  /\ limiter = <<>>
  /\ NothingElse

CacheGet ==
  /\ \E key \in CacheKeys : cache' = get(cache, key)
  /\ UNCHANGED <<Elsewhere, limiter>>

CacheSet ==
  /\ \E key \in CacheKeys, value \in CacheValues, ttl \in Ttls :
       cache' = set(cache, key, value, ttl)
  /\ UNCHANGED <<Elsewhere, limiter>>

CacheDelete ==
  /\ \E key \in CacheKeys : cache' = delete(cache, key)
  /\ UNCHANGED <<Elsewhere, limiter>>

CacheClear ==
  /\ cache' = clear(cache)
  /\ UNCHANGED <<Elsewhere, limiter>>

\* time passes between two calls
CacheTick ==
  /\ cache.now < MaxClock
  /\ cache' = [cache EXCEPT !.now = @ + 1]
  /\ UNCHANGED <<Elsewhere, limiter>>

NextCache == CacheGet \/ CacheSet \/ CacheDelete \/ CacheClear \/ CacheTick

SpecCache == InitCache /\ [][NextCache]_vars


\* Properties of the cache, under SpecCache

\* when the entry was last set or successfully read
LastUse(entry) ==
  IF entry.last_accessed # NoExpiry THEN entry.last_accessed ELSE entry.created_at

\* access_order lists exactly the stored keys, once each
OrderListsStored ==
  /\ Len(cache.access_order) = Cardinality(Stored(cache))
  /\ {cache.access_order[i] : i \in 1..Len(cache.access_order)} = Stored(cache)

\* a step that stores a key that was not stored, into a full cache
SetIntoFull ==
  /\ Cardinality(Stored(cache)) = max_size
  /\ Stored(cache') \ Stored(cache) # {}

\* C29: after any sequence of set, get, delete and clear calls (with
\* max_size >= 1) the number of stored entries is at most max_size and
\* access_order lists exactly the stored keys once each; and a set of a new
\* key into a full cache evicts exactly one key, the head of access_order,
\* which no stored key precedes in time of last set or successful read.
C29_BoundedLru ==
  /\ [](Cardinality(Stored(cache)) <= max_size /\ OrderListsStored)
  /\ [][SetIntoFull
        => \E evicted \in Stored(cache) :
             /\ Stored(cache) \ Stored(cache') = {evicted}
             /\ evicted = cache.access_order[1]
             /\ \A key \in Stored(cache) :
                  LastUse(cache.entries[evicted]) <= LastUse(cache.entries[key])]_vars

\* a full cache in which the key set first was read later than the other
\* one was set, so that the next eviction takes the other one
C29_Witness ==
  /\ Cardinality(Stored(cache)) = max_size
  /\ \E key \in Stored(cache), other \in Stored(cache) :
       /\ cache.entries[key].created_at < cache.entries[other].created_at
       /\ cache.entries[other].created_at < cache.entries[key].last_accessed
       /\ cache.access_order[1] = other
       /\ cache.returned = cache.entries[key].value


-----------------------------------------------------------------------------
\* The sliding-window rate limiter (services/rate_limiting.py), for one
\* client and one endpoint, called by the server's threads.  The limiter
\* value is the record [heap, current, now, threads, admitted]: heap holds
\* the deque of every SlidingWindowCounter object created so far, current is
\* the object client_counters[client_id][endpoint] refers to (0: no entry),
\* now is the reading of time.time(), threads holds each caller's position
\* and local variable counter, admitted lists the times at which is_allowed
\* returned True.  The bookkeeping of violations, the temporary blocks and
\* the cleanup thread are not modelled: the first two only refuse more
\* requests, the third removes counters idle for an hour.

MaxRequests == 1

WindowSeconds == 2

MaxTime == 3

max_requests == MaxRequests

window_seconds == WindowSeconds

NoCaller == [pc |-> "idle", counter |-> 0, allowed |-> FALSE]

\* while self.requests and self.requests[0] <= cutoff_time: popleft()
DropOld(deque, cutoff_time) ==
  LET kept == {i \in 1..Len(deque) : \A k \in 1..i : deque[k] <= cutoff_time}
  IN  SubSeq(deque, Cardinality(kept) + 1, Len(deque))

\* SlidingWindowCounter.is_allowed, under self.lock: the deque afterwards
\* and the decision
is_allowed(deque, now) ==
  LET current == DropOld(deque, now - window_seconds)
  IN  IF Len(current) < max_requests
      THEN [requests |-> Append(current, now), allowed |-> TRUE]
      ELSE [requests |-> current, allowed |-> FALSE]

InitLimiter ==
  /\ limiter = [heap |-> <<>>, current |-> 0, now |-> 0,
                threads |-> [w \in Workers |-> NoCaller], admitted |-> <<>>]
  /\ cache = <<>>
  /\ NothingElse

\* if endpoint not in self.client_counters[client_id]
LimiterCheck ==
  /\ \E w \in Workers :
       /\ limiter.threads[w].pc = "idle"
       /\ limiter' = [limiter EXCEPT !.threads[w].pc =
                        IF limiter.current = 0 THEN "create" ELSE "fetch"]
  /\ UNCHANGED <<Elsewhere, cache>>

\* self.client_counters[client_id][endpoint] = SlidingWindowCounter(...)
LimiterCreate ==
  /\ \E w \in Workers :
       /\ limiter.threads[w].pc = "create"
       /\ limiter' = [limiter EXCEPT !.heap = Append(@, <<>>),
                                     !.current = Len(limiter.heap) + 1,
                                     !.threads[w].pc = "fetch"]
  /\ UNCHANGED <<Elsewhere, cache>>

\* counter = self.client_counters[client_id][endpoint]
LimiterFetch ==
  /\ \E w \in Workers :
       /\ limiter.threads[w].pc = "fetch"
       /\ limiter' = [limiter EXCEPT !.threads[w].pc = "call",
                                     !.threads[w].counter = limiter.current]
  /\ UNCHANGED <<Elsewhere, cache>>

\* allowed, remaining = counter.is_allowed(), and the return of the status
LimiterIsAllowed ==
  /\ \E w \in Workers :
       LET counter == limiter.threads[w].counter
           outcome == is_allowed(limiter.heap[counter], limiter.now)
       IN  /\ limiter.threads[w].pc = "call"
           /\ limiter' = [limiter EXCEPT
                            !.heap[counter] = outcome.requests,
                            !.admitted = IF outcome.allowed
                                         THEN Append(@, limiter.now) ELSE @,
                            !.threads[w] = [pc |-> "idle", counter |-> 0,
                                            allowed |-> outcome.allowed]]
  /\ UNCHANGED <<Elsewhere, cache>>

\* time passes
LimiterTick ==
  /\ limiter.now < MaxTime
  /\ limiter' = [limiter EXCEPT !.now = @ + 1]
  /\ UNCHANGED <<Elsewhere, cache>>

NextLimiter ==
  LimiterCheck \/ LimiterCreate \/ LimiterFetch \/ LimiterIsAllowed \/ LimiterTick

SpecLimiter == InitLimiter /\ [][NextLimiter]_vars

\* Properties of the rate limiter, under SpecLimiter

\* the requests admitted in the window_seconds from time t on
AdmittedFrom(t) ==
  {i \in 1..Len(limiter.admitted) :
     t <= limiter.admitted[i] /\ limiter.admitted[i] < t + window_seconds}

\* the step in which caller w's request is refused
Rejected(w) ==
  /\ limiter.threads[w].pc = "call"
  /\ limiter'.threads[w].pc = "idle" /\ ~limiter'.threads[w].allowed

\* C30: for the client and endpoint, in every interleaving of the callers, at
\* most max_requests requests are admitted in any window_seconds; and the
\* step that refuses a request adds nothing to the counter's deque, which
\* afterwards holds the requests of the present window only.
C30_WindowBound ==
  /\ [](\A t \in 0..MaxTime : Cardinality(AdmittedFrom(t)) <= max_requests)
  /\ [][\A w \in Workers :
          Rejected(w)
          => limiter'.heap[limiter.threads[w].counter]
               = DropOld(limiter.heap[limiter.threads[w].counter],
                         limiter.now - window_seconds)]_vars

=============================================================================
